---- MODULE Spec2Model ----
(***************************************************************************)
(* Model of the sphere command line tool (src/src/main.rs): the local      *)
(* cache index, the cache administration commands, the SphereHub fetch     *)
(* with its SHA-256 check, the dependency loop of `run`, the sandbox with  *)
(* its shims, the execution of the entrypoint and main's error report.     *)
(*                                                                         *)
(* Strings the code inspects character by character (ids, file names,      *)
(* paths, hashes) are sequences of one-character strings.                  *)
(***************************************************************************)
EXTENDS Integers, Sequences, FiniteSets, TLC

\* ------------------------------------------------------------------ bounds

\* Tool invocations (and manual deletions of a cache file) per behaviour.
MaxInvocations == 3

\* ------------------------------------------------------- program constants

\* &hub_info.hash_sha256[..8]
HashPrefixLen == 8
\* format!("{:x}", Sha256) : 32 bytes, two hex digits each
HashHexLen == 64
\* std::process::exit(1)
ExitFailure == 1
\* the exit status of a Rust process that panicked
ExitPanic == 101
\* main returns normally
ExitSuccess == 0

\* ----------------------------------------------------------------- strings

AlnumChars == {"a", "b", "s", "p", "h", "e", "r", "d", "f", "o", "0", "1", "2"}

is_alphanumeric(c) == c \in AlnumChars

ends_with(s, suffix) ==
    /\ Len(s) >= Len(suffix)
    /\ SubSeq(s, Len(s) - Len(suffix) + 1, Len(s)) = suffix

RECURSIVE FilterAlnum(_)
FilterAlnum(s) ==
    IF s = <<>> THEN <<>>
    ELSE (IF is_alphanumeric(Head(s)) THEN <<Head(s)>> ELSE <<>>) \o FilterAlnum(Tail(s))

\* str::trim().is_empty() : only white space
TrimIsEmpty(s) == \A i \in 1..Len(s) : s[i] = " "

\* Path::is_absolute on unix
is_absolute(p) == Len(p) > 0 /\ p[1] = "/"

DotSphere == <<".", "s", "p", "h", "e", "r", "e">>
SpherePrefix == <<"s", "p", "h", "e", "r", "e", "_">>

CachedFileName_unreplaced(id) == id \o DotSphere

\* The cache file name `cache add --copy-to-cache` derives from an id;
\* <<>> stands for "Cannot derive a valid cache filename".
CachedFileName(id) ==
    LET replaced == [i \in 1..Len(id) |->
                        IF ~is_alphanumeric(id[i]) /\ id[i] # "." /\ id[i] # "-"
                        THEN "_" ELSE id[i]]
        suffixed == IF ends_with(replaced, DotSphere) THEN replaced
                    ELSE replaced \o DotSphere
    IN  IF suffixed = DotSphere \/ suffixed = <<>>
        THEN LET synth == SpherePrefix \o FilterAlnum(id) \o DotSphere
             IN  IF synth = SpherePrefix \o DotSphere THEN <<>> ELSE synth
        ELSE suffixed

\* ------------------------------------------------------- manifests (TOML)

IdA == <<"a">>
IdB == <<"/">>
DepIds == {IdA, IdB}

\* A manifest text: whether it is well-formed TOML, and its top-level keys.
Text(syntax, fields) == [syntax |-> syntax, fields |-> fields]

TDepWorld == Text(TRUE, [entrypoint |-> "echo world"])
TDepOther == Text(TRUE, [entrypoint |-> "echo other", id |-> IdA])
TNoEntry  == Text(TRUE, [id |-> IdA])
TGarbage  == Text(FALSE, [entrypoint |-> "echo world"])
TNoDeps   == Text(TRUE, [entrypoint |-> "echo hello"])
TEmptyEntry == Text(TRUE, [entrypoint |-> ""])
TOneDep   == Text(TRUE, [entrypoint |-> "foo", dependencies |-> [foo |-> IdA]])
TTwoDeps  == Text(TRUE, [entrypoint |-> "foo; bar",
                         dependencies |-> [foo |-> IdA, bar |-> IdB]])

TSameId   == Text(TRUE, [entrypoint |-> "foo && bar",
                         dependencies |-> [foo |-> IdA, bar |-> IdA]])

NoDependencies == [alias \in {} |-> IdA]
Aliases == {"foo", "bar"}

\* toml::from_str::<SphereProcess> : a syntax error, a missing required
\* field, or the structure with its Option fields.
toml_from_str(text) ==
    IF ~text.syntax
    THEN [ok |-> FALSE, message |-> "expected an equals, found ..."]
    ELSE IF "entrypoint" \notin DOMAIN text.fields
    THEN [ok |-> FALSE, message |-> "missing field entrypoint"]
    ELSE [ok |-> TRUE,
          process |-> [entrypoint |-> text.fields.entrypoint,
                       has_deps |-> "dependencies" \in DOMAIN text.fields,
                       dependencies |-> IF "dependencies" \in DOMAIN text.fields
                                        THEN text.fields.dependencies
                                        ELSE NoDependencies]]

\* --------------------------------------------------- files outside the cache

PathDep   == <<"/", "d">>
PathBad   == <<"/", "b">>
PathNone  == <<"/", "n">>
PathDir   == <<"/", "t">>
PathRun0  == <<"/", "0">>
PathRun1  == <<"/", "1">>
PathRun2  == <<"/", "2">>
PathRun3  == <<"/", "3">>
PathRun4  == <<"/", "4">>
RelDep    == <<"d">>
Cwd       == <<"/">>

\* The regular files of the user, by canonical path.
UserFiles ==
    (PathDep :> TDepWorld) @@ (PathBad :> TNoEntry) @@ (PathRun0 :> TNoDeps)
    @@ (PathRun1 :> TOneDep) @@ (PathRun2 :> TTwoDeps) @@ (PathRun3 :> TEmptyEntry)
    @@ (PathRun4 :> TSameId)
UserDirs == {PathDir}

\* fs::canonicalize of an existing path
canonicalize(p) == IF is_absolute(p) THEN p ELSE Cwd \o p

\* Path::exists and Path::is_file of a path given on the command line
path_exists(p) == canonicalize(p) \in (DOMAIN UserFiles) \cup UserDirs
path_is_file(p) == canonicalize(p) \in DOMAIN UserFiles

\* ------------------------------------------------------------------ SHA-256

\* One hex digit per content stands for its digest: distinct contents of the
\* model have distinct digests, all of them lower case and HashHexLen long.
DigestDigit(bytes) ==
    CASE bytes = TDepWorld -> "a"
      [] bytes = TDepOther -> "b"
      [] bytes = TNoEntry  -> "c"
      [] bytes = TGarbage  -> "d"
      [] OTHER -> "e"

\* format!("{:x}", Sha256::new().update(bytes).finalize())
calculated_hash_hex(bytes) == [i \in 1..HashHexLen |-> DigestDigit(bytes)]

UpperChar(c) ==
    CASE c = "a" -> "A" [] c = "b" -> "B" [] c = "c" -> "C"
      [] c = "d" -> "D" [] c = "e" -> "E" [] c = "f" -> "F" [] OTHER -> c

to_uppercase(s) == [i \in 1..Len(s) |-> UpperChar(s[i])]

\* ------------------------------------------------------------------- errors

\* A Box<dyn Error>: the concrete type behind the box, the literal text its
\* message starts with, and the values the message interpolates.
Error(ty, head, args) == [ty |-> ty, head |-> head, args |-> args]
NoArgs == [a \in {} |-> <<>>]
NoError == Error("none", "", NoArgs)

Ok == [kind |-> "Ok", err |-> NoError]
Err(e) == [kind |-> "Err", err |-> e]
Panicked == [kind |-> "panic", err |-> NoError]
NoResult == [kind |-> "none", err |-> NoError]

\* -------------------------------------------------------------- cache index

\* get_cache_paths: HOME is set in every invocation and the cache directory
\* can be created, so the paths are always <home>/.sphere/cache and the
\* index.json in it.

EmptyIndex == [id \in {} |-> <<>>]
IndexFile(kind, map) == [kind |-> kind, map |-> map]

load_cache_index_lenient(file) ==
    [ok |-> TRUE, index |-> IF file.kind = "json" THEN file.map ELSE EmptyIndex,
     err |-> NoError]

\* load_cache_index: no file and a file of white space are the empty index,
\* text that is no JSON object of strings is an error that names the path.
load_cache_index(file) ==
    IF file.kind = "absent" THEN [ok |-> TRUE, index |-> EmptyIndex, err |-> NoError]
    ELSE IF file.kind = "blank" THEN [ok |-> TRUE, index |-> EmptyIndex, err |-> NoError]
    ELSE IF file.kind = "malformed"
    THEN [ok |-> FALSE, index |-> EmptyIndex,
          err |-> Error("String", "Failed to parse cache index", [path |-> <<"index.json">>])]
    ELSE [ok |-> TRUE, index |-> file.map, err |-> NoError]

\* serde_json::to_string_pretty + fs::write : the file now holds the JSON
\* object of the index
save_cache_index(index) == IndexFile("json", index)

SaveError == Error("String", "Failed to save cache index", [path |-> <<"index.json">>])

contains_key_never(index, id) == FALSE

\* HashMap::contains_key
contains_key(index, id) == id \in DOMAIN index

Remove_clears(index, id) == [k \in {} |-> <<>>]

Insert_alone(index, id, location) == (id :> location)

Insert_skipped(index, id, location) == index

\* HashMap::insert
Insert(index, id, location) ==
    [k \in (DOMAIN index) \cup {id} |-> IF k = id THEN location ELSE index[k]]
Remove(index, id) == [k \in (DOMAIN index) \ {id} |-> index[k]]

\* -------------------------------------------------------------------- state

VARIABLES
    indexFile,      \* <home>/.sphere/cache/index.json
    cacheDir,       \* the other files of <home>/.sphere/cache: name -> content
    pc,             \* where the running invocation stands ("idle": none runs)
    cmd,            \* the command line of the running invocation
    result,         \* what the command's handler returned to main
    local_index,    \* run_sphere: the index in memory
    deps_left,      \* run_sphere: aliases the loop has not visited yet
    resolved_deps,  \* run_sphere: Vec<Dependency>
    cur,            \* run_sphere: the (alias, sphere_id) of this iteration
    hub_info,       \* fetch_sphere_from_hub: the registry entry found
    dl_bytes,       \* fetch_sphere_from_hub: sphere_file_content_bytes
    dep_path,       \* run_sphere: where the dependency is read from
    sandbox,        \* temp_dir: whether it exists, bin/, and the shims
    net_requests,   \* HTTP requests sent by the running invocation
    fetched,        \* ids the running invocation fetched from the hub
    executed,       \* times the running invocation started the entrypoint
    child,          \* the entrypoint's process and what the tool printed of it
    exit,           \* the exit code and the standard error of the invocation
    prev,           \* the command of the invocation before, if it succeeded
    invocations,    \* invocations started so far
    racers          \* invocations that run at the same time (SpecRace)

vars == <<indexFile, cacheDir, pc, cmd, result, local_index, deps_left,
          resolved_deps, cur, hub_info, dl_bytes, dep_path, sandbox,
          net_requests, fetched, executed, child, exit, prev, invocations,
          racers>>

fsVars == <<indexFile, cacheDir>>
runVars == <<local_index, deps_left, resolved_deps, cur, hub_info, dl_bytes,
             dep_path, sandbox, net_requests, fetched, executed, child>>

\* ---------------------------------------------------------------- commands

\* The command line: the subcommand, --quiet, and the subcommand's arguments.
Command(kind, quiet, id, file, copy) ==
    [kind |-> kind, quiet |-> quiet, id |-> id, file |-> file, copy |-> copy]
NoCommand == Command("none", FALSE, <<>>, <<>>, FALSE)

AddIds == DepIds \cup {<<" ">>}
AddFiles == {RelDep, PathBad, PathNone, PathDir}
RunFiles == {PathRun0, PathRun1, PathRun2, PathRun3, PathRun4, PathBad, PathNone}

\* ------------------------------------------------------ cache add / remove

Outcome(res, file, cache) == [result |-> res, indexFile |-> file, cacheDir |-> cache]
Fails(e) == Outcome(Err(e), indexFile, cacheDir)

\* `io` is what the file system does to this invocation's writes:
\* "ok", "copy_fails" or "save_fails".
\* handle_cache_add once load_cache_index has returned `loaded`.
handle_cache_add_from(loaded, id, sphere_file_path_arg, copy_to_cache, io) ==
    LET index == loaded.index
        idArg == [id |-> id]
        cached_file_name == CachedFileName(id)
        absolute == canonicalize(sphere_file_path_arg)
    IN  IF ~loaded.ok THEN Fails(loaded.err)
        ELSE IF TrimIsEmpty(id)
        THEN Fails(Error("String", "Sphere ID cannot be empty.", NoArgs))
        ELSE IF contains_key(index, id)
        THEN Fails(Error("String", "Sphere ID already exists in the cache index", idArg))
        ELSE IF ~path_exists(sphere_file_path_arg)
        THEN Fails(Error("String", "Source file does not exist.",
                         [path |-> sphere_file_path_arg]))
        ELSE IF ~path_is_file(sphere_file_path_arg)
        THEN Fails(Error("String", "Source path is not a file.",
                         [path |-> sphere_file_path_arg]))
        ELSE IF copy_to_cache
        THEN IF cached_file_name = <<>>
             THEN Fails(Error("String", "Cannot derive a valid cache filename", NoArgs))
             ELSE IF cached_file_name \in DOMAIN cacheDir
             THEN Fails(Error("String", "A file named already exists in the cache directory",
                              [id |-> id, filename |-> cached_file_name]))
             ELSE IF io = "copy_fails"
             THEN Fails(Error("String", "Failed to copy",
                              [path |-> sphere_file_path_arg, filename |-> cached_file_name]))
             ELSE LET copied == (cached_file_name :> UserFiles[absolute]) @@ cacheDir
                  IN  IF io = "save_fails"
                      THEN Outcome(Err(SaveError), indexFile, copied)
                      ELSE Outcome(Ok,
                                   save_cache_index(Insert(index, id, cached_file_name)),
                                   copied)
        ELSE IF io = "save_fails" THEN Fails(SaveError)
        ELSE Outcome(Ok, save_cache_index(Insert(index, id, absolute)), cacheDir)

handle_cache_add(id, sphere_file_path_arg, copy_to_cache, io) ==
    handle_cache_add_from(load_cache_index(indexFile), id, sphere_file_path_arg,
                          copy_to_cache, io)

handle_cache_remove(id, io) ==
    LET loaded == load_cache_index(indexFile)
        index == loaded.index
    IN  IF ~loaded.ok THEN Fails(loaded.err)
        ELSE IF ~contains_key(index, id)
        THEN Fails(Error("String", "Sphere ID not found in the cache index", [id |-> id]))
        ELSE IF io = "save_fails" THEN Fails(SaveError)
        ELSE Outcome(Ok, save_cache_index(Remove(index, id)), cacheDir)

handle_cache_list ==
    LET loaded == load_cache_index(indexFile)
    IN  IF ~loaded.ok THEN Fails(loaded.err)
        ELSE Outcome(Ok, indexFile, cacheDir)

\* --------------------------------------------------------------------- main

\* The heads of the messages in which main finds one of its custom_prefixes.
CustomPrefixHeads ==
    {"Dependency file not found at expected path", "Failed to read dependency file",
     "Failed to obtain dependency", "Failed to read sphere file",
     "Failed to parse TOML from", "Failed to parse TOML for dependency",
     "Sphere ID cannot be empty.", "Sphere ID already exists in the cache index",
     "Sphere ID not found in the cache index", "Source file does not exist.",
     "A file named already exists in the cache directory", "Failed to copy",
     "Failed to get absolute path", "Failed to save cache index",
     "Failed to parse cache index", "Could not determine home directory",
     "Cannot derive a valid cache filename", "Failed to fetch SphereHub master index",
     "Sphere ID not found in the public SphereHub registry",
     "Failed to fetch Sphere file", "Hash mismatch for Sphere",
     "Failed to save downloaded Sphere"}

Message(text, args) == [text |-> text, args |-> args]
NoMessage == Message("", NoArgs)
PanicMessage == Message("thread 'main' panicked", NoArgs)

\* The text main prints to standard error for the error `e`.
error_message(e) ==
    IF e.ty = "toml"
    THEN IF e.head = "missing field entrypoint"
         THEN Message("The file is missing the required 'entrypoint' field.", NoArgs)
         ELSE Message("Failed to parse TOML from. Reason:", e.args)
    ELSE IF e.head \in CustomPrefixHeads
    THEN Message(e.head, e.args)
    ELSE Message("Application error:", [inner |-> <<e.head>>] @@ e.args)

Exit(code, stderr) == [code |-> code, stderr |-> stderr]
NoExit == Exit(ExitSuccess, NoMessage)

\* How the process ends, given what the handler returned to main.
main_exit(res) ==
    IF res.kind = "Ok" THEN Exit(ExitSuccess, NoMessage)
    ELSE IF res.kind = "Err" THEN Exit(ExitFailure, error_message(res.err))
    ELSE Exit(ExitPanic, PanicMessage)

\* ------------------------------------------------------------- the registry

\* HubSphereInfo (description and author are only printed)
HubSphereInfo(filename, hash) == [filename |-> filename, hash_sha256 |-> hash]
NoHubInfo == HubSphereInfo(<<>>, <<>>)
ShortHash == <<"b", "b", "b">>

\* The registry entries of the model: the digest of the file the hub serves
\* under either file name, and for one name the same digest in upper case and
\* a string shorter than a digest.
HubFileNames == {CachedFileName(IdA), CachedFileName(IdB)}
HubInfos ==
    {HubSphereInfo(f, calculated_hash_hex(TDepOther)) : f \in HubFileNames}
    \cup {HubSphereInfo(CachedFileName(IdA), h) :
            h \in {to_uppercase(calculated_hash_hex(TDepOther)), ShortHash}}

\* What the GET of the master index comes to for the id looked up: the
\* request fails, the status is not 2xx, the body is no registry JSON, the
\* id has no entry, or its entry.
Response(kind, info, bytes) == [kind |-> kind, info |-> info, bytes |-> bytes]
MasterIndexResponses ==
    {Response(k, NoHubInfo, TGarbage) :
        k \in {"send_error", "http_error", "unparsable", "absent"}}
    \cup {Response("entry", i, TGarbage) : i \in HubInfos}
HubFileContents == {TDepWorld, TDepOther}
SphereFileResponses ==
    {Response(k, NoHubInfo, TGarbage) : k \in {"send_error", "http_error"}}
    \cup {Response("bytes", NoHubInfo, b) : b \in HubFileContents}

\* ------------------------------------------------------------------ sandbox

Sandbox(exists, bin, shims) == [exists |-> exists, bin |-> bin, shims |-> shims]
NoShims == [alias \in {} |-> <<>>]
NoSandbox == Sandbox(FALSE, FALSE, NoShims)

\* writeln!("#!/bin/sh"); writeln!("{}", dep.process.entrypoint)
ShimScript(entrypoint) == <<"#!/bin/sh", entrypoint>>

DropTempDir_leaks(sb) == sb

\* TempDir::drop : the directory is removed with all it holds
DropTempDir(sb) == NoSandbox

\* ---------------------------------------------------- the entrypoint's process

\* The directories of the PATH the tool itself runs with (std::env::var("PATH"))
\* and the executables they hold; one of them has the name of an alias.
OriginalPath == <<"/usr/bin">>
SystemBins == [dir \in {"/usr/bin"} |-> {"sh", "foo", "ls"}]

\* temp_dir.path() and temp_dir.path().join("bin")
SandboxRoot == "<sandbox>"
BinPath == "<sandbox>/bin"

new_path_appended == OriginalPath \o <<BinPath>>

\* format!("{}:{}", bin_path.to_string_lossy(), original_path)
new_path == <<BinPath>> \o OriginalPath

\* The executables a directory of the PATH holds when the child looks: the
\* shims are created with mode 0o755.
Executables(dir) ==
    IF dir = BinPath
    THEN IF sandbox.bin THEN DOMAIN sandbox.shims ELSE {}
    ELSE SystemBins[dir]

\* The search of a PATH for a program name (execvp): the first directory that
\* holds an executable of that name, "" when none does.
RECURSIVE Which(_, _)
Which(path, name) ==
    IF path = <<>> THEN ""
    ELSE IF name \in Executables(Head(path)) THEN Head(path)
    ELSE Which(Tail(path), name)

\* What the child wrote to its standard output and standard error.
Output(stdout, stderr) == [stdout |-> stdout, stderr |-> stderr]
NoOutput == Output("", "")
ChildOutputs == {Output(o, e) : o \in {"", "world"}, e \in {"", " ", "oops"}}

\* str::trim of the outputs of the model
trim(s) == IF s = " " THEN "" ELSE s

\* What run_sphere prints after the child has ended: the frame lines unless
\* quiet, the trimmed standard output when it is not empty, and the trimmed
\* standard error when the captured bytes are not empty.
PrintedOutput(output, quiet) ==
    [narration |-> ~quiet,
     stdout |-> IF trim(output.stdout) # "" THEN <<trim(output.stdout)>>
                ELSE IF ~quiet THEN <<"(empty)">> ELSE <<>>,
     stderr |-> IF output.stderr # "" THEN <<trim(output.stderr)>> ELSE <<>>]
NoPrinted == [narration |-> FALSE, stdout |-> <<>>, stderr |-> <<>>]

\* Command::new("sh").arg("-c").arg(entrypoint).current_dir(..).env("PATH", ..):
\* the program found for "sh", the command line given to it, the working
\* directory and the PATH of the child, what the tool printed of it, and
\* output.status once the child has ended ("none" before).
Child(program, script, cwd, path, printed) ==
    [program |-> program, script |-> script, cwd |-> cwd, path |-> path,
     printed |-> printed, status |-> "none"]

\* ExitStatus::success() of the child, or not
ChildStatuses == {"success", "failure"}
NoChild == Child("", "", "", <<>>, NoPrinted)

\* ------------------------------------------------- invocations side by side

Procs == {1, 2}
Racer(at, command, index, res) ==
    [pc |-> at, cmd |-> command, index |-> index, result |-> res]
NoRacers == [p \in Procs |-> Racer("start", NoCommand, EmptyIndex, NoResult)]

\* ----------------------------------------------------------------- run_sphere

NoCur == [alias |-> "", sphere_id |-> <<>>]

LocationExists_always(location) == TRUE

\* A location of the index as a path: absolute as it is, otherwise in the
\* cache directory. Files of the cache directory go by their name.
LocationExists(location) ==
    IF is_absolute(location)
    THEN location \in (DOMAIN UserFiles) \cup UserDirs
    ELSE location \in DOMAIN cacheDir

ReadLocation(location) ==
    IF is_absolute(location) THEN UserFiles[location] ELSE cacheDir[location]

\* `return Err(..)`, `?` and the final Ok(()) of run_sphere: temp_dir, if it
\* was created, goes out of scope, the handler returns to main, and main
\* reports and exits. A panic unwinds the same way.
ReturnFromRun(res) ==
    /\ pc' = "exited"
    /\ result' = res
    /\ exit' = main_exit(res)
    /\ sandbox' = DropTempDir(sandbox)

FailDependency_skips(e) ==
    /\ pc' = IF deps_left = {} THEN "sandbox" ELSE "resolve"
    /\ UNCHANGED <<result, exit, sandbox, deps_left, resolved_deps, cur, executed, child>>

\* The `?` on a dependency that could not be resolved.
FailDependency(e) ==
    /\ ReturnFromRun(Err(e))
    /\ UNCHANGED <<deps_left, resolved_deps, cur, executed, child>>

AfterDependency_early == "sandbox"

\* The end of an iteration: the next one, or the end of the loop.
AfterDependency == IF deps_left = {} THEN "sandbox" ELSE "resolve"

\* --------------------------------------------------------------------- Init

Init ==
    /\ indexFile \in {IndexFile(k, EmptyIndex) : k \in {"absent", "blank", "malformed"}}
    /\ cacheDir = [name \in {} |-> TGarbage]
    /\ pc = "idle"
    /\ cmd = NoCommand
    /\ result = NoResult
    /\ local_index = EmptyIndex
    /\ deps_left = {}
    /\ resolved_deps = <<>>
    /\ cur = NoCur
    /\ hub_info = NoHubInfo
    /\ dl_bytes = TGarbage
    /\ dep_path = <<>>
    /\ sandbox = NoSandbox
    /\ net_requests = 0
    /\ fetched = {}
    /\ executed = 0
    /\ exit = NoExit
    /\ prev = NoCommand
    /\ invocations = 0
    /\ child = NoChild
    /\ racers = NoRacers

CanInvoke == pc = "idle" /\ invocations < MaxInvocations

\* ------------------------------------------------------- the cache commands

\* A cache command from its start to the exit of the process: the handler
\* and main's report.
CacheCommand(command, out) ==
    /\ cmd' = command
    /\ result' = out.result
    /\ exit' = main_exit(out.result)
    /\ indexFile' = out.indexFile
    /\ cacheDir' = out.cacheDir
    /\ pc' = "exited"
    /\ invocations' = invocations + 1
    /\ UNCHANGED racers
    /\ UNCHANGED <<runVars, prev>>

CacheAdd ==
    /\ CanInvoke
    /\ \E id \in AddIds, file \in AddFiles, copy \in BOOLEAN, quiet \in BOOLEAN,
          io \in {"ok", "copy_fails", "save_fails"} :
          CacheCommand(Command("add", quiet, id, file, copy),
                       handle_cache_add(id, file, copy, io))

CacheRemove ==
    /\ CanInvoke
    /\ \E id \in DepIds, quiet \in BOOLEAN, io \in {"ok", "save_fails"} :
          CacheCommand(Command("remove", quiet, id, <<>>, FALSE),
                       handle_cache_remove(id, io))

CacheList ==
    /\ CanInvoke
    /\ \E quiet \in BOOLEAN :
          CacheCommand(Command("list", quiet, <<>>, <<>>, FALSE), handle_cache_list)

\* The user removes a file from the cache directory by hand, as the remove
\* command advises.
UserDeletesCacheFile ==
    /\ CanInvoke
    /\ \E name \in DOMAIN cacheDir :
          cacheDir' = [n \in (DOMAIN cacheDir) \ {name} |-> cacheDir[n]]
    /\ invocations' = invocations + 1
    /\ UNCHANGED racers
    /\ prev' = NoCommand
    /\ UNCHANGED <<indexFile, pc, cmd, result, exit, runVars>>

\* The process is gone with all it held in memory; what remains is the file
\* system.
ProcessEnd ==
    /\ pc = "exited"
    /\ prev' = IF exit.code = ExitSuccess
               THEN Command(cmd.kind, FALSE, cmd.id, cmd.file, cmd.copy)
               ELSE NoCommand
    /\ pc' = "idle"
    /\ cmd' = NoCommand
    /\ result' = NoResult
    /\ exit' = NoExit
    /\ local_index' = EmptyIndex
    /\ deps_left' = {}
    /\ resolved_deps' = <<>>
    /\ cur' = NoCur
    /\ hub_info' = NoHubInfo
    /\ dl_bytes' = TGarbage
    /\ dep_path' = <<>>
    /\ net_requests' = 0
    /\ fetched' = {}
    /\ executed' = 0
    /\ child' = NoChild
    /\ UNCHANGED <<indexFile, cacheDir, sandbox, invocations, racers>>

\* ------------------------------------------------------------ run: the steps

\* run_sphere up to the dependency loop: the manifest is read and parsed and,
\* when it has a dependencies table, the cache index is loaded.
RunBegin ==
    /\ CanInvoke
    /\ \E file \in RunFiles, quiet \in BOOLEAN :
        LET parsed == toml_from_str(UserFiles[file])
            loaded == load_cache_index(indexFile)
            fail(e) == /\ ReturnFromRun(Err(e))
                       /\ UNCHANGED <<local_index, deps_left>>
        IN  /\ cmd' = Command("run", quiet, <<>>, file, FALSE)
            /\ invocations' = invocations + 1
            /\ UNCHANGED racers
            /\ IF file \notin DOMAIN UserFiles
               THEN fail(Error("String", "Failed to read sphere file", [path |-> file]))
               ELSE IF ~parsed.ok
               THEN fail(Error("String", "Failed to parse TOML from",
                               [path |-> file, message |-> <<parsed.message>>]))
               ELSE IF ~parsed.process.has_deps
               THEN /\ pc' = "sandbox"
                    /\ UNCHANGED <<result, exit, sandbox, local_index, deps_left>>
               ELSE IF ~loaded.ok THEN fail(loaded.err)
               ELSE /\ local_index' = loaded.index
                    /\ deps_left' = DOMAIN parsed.process.dependencies
                    /\ pc' = IF DOMAIN parsed.process.dependencies = {}
                             THEN "sandbox" ELSE "resolve"
                    /\ UNCHANGED <<result, exit, sandbox>>
    /\ UNCHANGED <<fsVars, resolved_deps, cur, hub_info, dl_bytes, dep_path,
                   net_requests, fetched, executed, child, prev>>

\* The manifest of the running `run` invocation.
Manifest == toml_from_str(UserFiles[cmd.file]).process

UseLocal_never(index, sphere_id) == FALSE

\* Whether the iteration takes the dependency from the local cache: its id
\* has an entry in the index and the entry's file exists.
UseLocal(index, sphere_id) ==
    sphere_id \in DOMAIN index /\ LocationExists(index[sphere_id])

\* `for (alias, sphere_id) in deps` over a HashMap<String, String>: the
\* aliases the iteration may yield next. The order of a HashMap's iteration
\* is that of its hasher's random keys, which every process draws anew.
NextAliases == deps_left

\* The head of one iteration of the dependency loop: the look-up of the id
\* in the index in memory.
ResolveNext ==
    /\ pc = "resolve"
    /\ \E alias \in NextAliases :
        LET sphere_id == Manifest.dependencies[alias]
        IN  /\ cur' = [alias |-> alias, sphere_id |-> sphere_id]
            /\ deps_left' = deps_left \ {alias}
            /\ IF UseLocal(local_index, sphere_id)
               THEN /\ dep_path' = local_index[sphere_id]
                    /\ pc' = "load_dep"
               ELSE /\ dep_path' = <<>>
                    /\ pc' = "fetch_index"
    /\ UNCHANGED <<fsVars, cmd, result, exit, local_index, resolved_deps,
                   hub_info, dl_bytes, sandbox, net_requests, fetched, executed, child,
                   prev, invocations, racers>>

\* `&hub_info.hash_sha256[..8]` panics on a string shorter than the prefix.
HashPrefixPanics(info) == Len(info.hash_sha256) < HashPrefixLen

\* fetch_sphere_from_hub with its `quiet`: the GET of the master index, the
\* look-up and, unless quiet, the line that shows the entry found.
FetchMasterIndexAs(quiet) ==
    /\ pc = "fetch_index"
    /\ net_requests' = net_requests + 1
    /\ \E response \in MasterIndexResponses :
        CASE response.kind = "send_error" ->
               /\ FailDependency(Error("reqwest", "error sending request", NoArgs))
               /\ UNCHANGED hub_info
          [] response.kind = "http_error" ->
               /\ FailDependency(Error("String", "Failed to fetch SphereHub master index",
                                        NoArgs))
               /\ UNCHANGED hub_info
          [] response.kind = "unparsable" ->
               /\ FailDependency(Error("String", "Failed to parse SphereHub master index",
                                        NoArgs))
               /\ UNCHANGED hub_info
          [] response.kind = "absent" ->
               /\ FailDependency(Error("String",
                                        "Sphere ID not found in the public SphereHub registry",
                                        [id |-> cur.sphere_id]))
               /\ UNCHANGED hub_info
          [] response.kind = "entry" ->
               IF ~quiet /\ HashPrefixPanics(response.info)
               THEN /\ ReturnFromRun(Panicked)
                    /\ hub_info' = response.info
                    /\ UNCHANGED <<deps_left, resolved_deps, cur, executed, child>>
               ELSE /\ hub_info' = response.info
                    /\ pc' = "fetch_file"
                    /\ UNCHANGED <<result, exit, sandbox, deps_left, resolved_deps, cur,
                                   executed, child>>
    /\ UNCHANGED <<fsVars, cmd, local_index, dl_bytes, dep_path, fetched, prev,
                   invocations, racers>>

FetchMasterIndex == FetchMasterIndexAs(cmd.quiet)

\* fetch_sphere_from_hub: the GET of the sphere file.
FetchSphereFile ==
    /\ pc = "fetch_file"
    /\ net_requests' = net_requests + 1
    /\ \E response \in SphereFileResponses :
        CASE response.kind = "send_error" ->
               /\ FailDependency(Error("reqwest", "error sending request", NoArgs))
               /\ UNCHANGED dl_bytes
          [] response.kind = "http_error" ->
               /\ FailDependency(Error("String", "Failed to fetch Sphere file",
                                        [filename |-> hub_info.filename]))
               /\ UNCHANGED dl_bytes
          [] response.kind = "bytes" ->
               /\ dl_bytes' = response.bytes
               /\ pc' = "verify"
               /\ UNCHANGED <<result, exit, sandbox, deps_left, resolved_deps, cur, executed, child>>
    /\ UNCHANGED <<fsVars, cmd, local_index, hub_info, dep_path, fetched, prev,
                   invocations, racers>>

HashMatches_ignoring_case(calculated, advertised) ==
    to_uppercase(calculated) = to_uppercase(advertised)

\* calculated_hash_hex != hub_info.hash_sha256, negated
HashMatches(calculated, advertised) == calculated = advertised

\* fetch_sphere_from_hub: the digest of the downloaded bytes against the
\* registry's.
VerifyHash ==
    /\ pc = "verify"
    /\ IF HashMatches(calculated_hash_hex(dl_bytes), hub_info.hash_sha256)
       THEN /\ pc' = "store"
            /\ UNCHANGED <<result, exit, sandbox, deps_left, resolved_deps, cur, executed, child>>
       ELSE FailDependency(Error("String", "Hash mismatch for Sphere",
                                 [id |-> cur.sphere_id, filename |-> hub_info.filename,
                                  expected |-> hub_info.hash_sha256,
                                  got |-> calculated_hash_hex(dl_bytes)]))
    /\ UNCHANGED <<fsVars, cmd, local_index, hub_info, dl_bytes, dep_path,
                   net_requests, fetched, prev, invocations, racers>>

\* fetch_sphere_from_hub after the check: the bytes are written to the cache
\* directory, the index gets the entry and is saved; the function returns and
\* its locals are gone.
StoreFetched ==
    /\ pc = "store"
    /\ \E io \in {"ok", "write_fails", "save_fails"} :
        LET written == (hub_info.filename :> dl_bytes) @@ cacheDir
            inserted == Insert(local_index, cur.sphere_id, hub_info.filename)
        IN  IF io = "write_fails"
            THEN /\ FailDependency(Error("String", "Failed to save downloaded Sphere",
                                          [id |-> cur.sphere_id,
                                           filename |-> hub_info.filename]))
                 /\ UNCHANGED <<fsVars, local_index, dep_path, fetched>>
            ELSE IF io = "save_fails"
            THEN /\ FailDependency(SaveError)
                 /\ cacheDir' = written
                 /\ local_index' = inserted
                 /\ UNCHANGED <<indexFile, dep_path, fetched>>
            ELSE /\ cacheDir' = written
                 /\ local_index' = inserted
                 /\ indexFile' = save_cache_index(inserted)
                 /\ dep_path' = hub_info.filename
                 /\ fetched' = fetched \cup {cur.sphere_id}
                 /\ pc' = "load_dep"
                 /\ UNCHANGED <<result, exit, sandbox, deps_left, resolved_deps, cur,
                                executed, child>>
    /\ hub_info' = NoHubInfo
    /\ dl_bytes' = TGarbage
    /\ UNCHANGED <<cmd, net_requests, prev, invocations, racers>>

\* The rest of the iteration: the dependency's file is read and parsed and
\* the dependency is pushed.
LoadDependency ==
    /\ pc = "load_dep"
    /\ LET ids == [id |-> cur.sphere_id, alias |-> <<cur.alias>>, path |-> dep_path]
           parsed == toml_from_str(ReadLocation(dep_path))
       IN  IF ~LocationExists(dep_path)
           THEN FailDependency(Error("String", "Failed to obtain dependency", ids))
           ELSE IF is_absolute(dep_path) /\ dep_path \in UserDirs
           THEN FailDependency(Error("io", "Failed to read dependency file", ids))
           ELSE IF ~parsed.ok
           THEN FailDependency(Error("String", "Failed to parse TOML for dependency",
                                     [id |-> cur.sphere_id, path |-> dep_path,
                                      message |-> <<parsed.message>>]))
           ELSE /\ resolved_deps' = Append(resolved_deps,
                                           [alias |-> cur.alias,
                                            process |-> parsed.process])
                /\ pc' = AfterDependency
                /\ UNCHANGED <<result, exit, sandbox, deps_left, cur, executed, child>>
    /\ UNCHANGED <<fsVars, cmd, local_index, hub_info, dl_bytes, dep_path,
                   net_requests, fetched, prev, invocations, racers>>

\* tempdir()
CreateTempDir ==
    /\ pc = "sandbox"
    /\ \E io \in {"ok", "fails"} :
        IF io = "fails"
        THEN ReturnFromRun(Err(Error("io", "tempdir", NoArgs)))
        ELSE /\ sandbox' = Sandbox(TRUE, FALSE, NoShims)
             /\ pc' = "bin"
             /\ UNCHANGED <<result, exit>>
    /\ UNCHANGED <<fsVars, cmd, local_index, deps_left, resolved_deps, cur,
                   hub_info, dl_bytes, dep_path, net_requests, fetched, executed, child,
                   prev, invocations, racers>>

\* fs::create_dir(&bin_path)
CreateBinDir ==
    /\ pc = "bin"
    /\ \E io \in {"ok", "fails"} :
        IF io = "fails"
        THEN ReturnFromRun(Err(Error("io", "create_dir", NoArgs)))
        ELSE /\ sandbox' = Sandbox(TRUE, TRUE, NoShims)
             /\ pc' = IF resolved_deps = <<>> THEN "exec" ELSE "shims"
             /\ UNCHANGED <<result, exit>>
    /\ UNCHANGED <<fsVars, cmd, local_index, deps_left, resolved_deps, cur,
                   hub_info, dl_bytes, dep_path, net_requests, fetched, executed, child,
                   prev, invocations, racers>>

\* The shims written so far; one iteration of `for dep in &resolved_deps`
\* writes the next one: the file is created, made executable and written.
ShimsWritten == Cardinality(DOMAIN sandbox.shims)

WriteShim ==
    /\ pc = "shims"
    /\ ShimsWritten < Len(resolved_deps)
    /\ \E io \in {"ok", "create_fails", "write_fails"} :
        LET dep == resolved_deps[ShimsWritten + 1]
            with(script) == Sandbox(TRUE, TRUE, (dep.alias :> script) @@ sandbox.shims)
        IN  IF io = "create_fails"
            THEN ReturnFromRun(Err(Error("io", "File::create", NoArgs)))
            ELSE IF io = "write_fails"
            THEN ReturnFromRun(Err(Error("io", "writeln", NoArgs)))
            ELSE /\ sandbox' = with(ShimScript(dep.process.entrypoint))
                 /\ pc' = IF ShimsWritten + 1 = Len(resolved_deps) THEN "exec" ELSE "shims"
                 /\ UNCHANGED <<result, exit>>
    /\ UNCHANGED <<fsVars, cmd, local_index, deps_left, resolved_deps, cur,
                   hub_info, dl_bytes, dep_path, net_requests, fetched, executed, child,
                   prev, invocations, racers>>

\* Command::new("sh").arg("-c").arg(entrypoint) ... .output(): the child is
\* started, or cannot be.
Execute ==
    /\ pc = "exec"
    /\ \E io \in {"ok", "spawn_fails"} :
        IF io = "spawn_fails"
        THEN /\ ReturnFromRun(Err(Error("io", "Command::output", NoArgs)))
             /\ UNCHANGED <<executed, child>>
        ELSE /\ executed' = executed + 1
             /\ child' = Child(Which(new_path, "sh"), Manifest.entrypoint,
                               SandboxRoot, new_path, NoPrinted)
             /\ pc' = "running"
             /\ UNCHANGED <<result, exit, sandbox>>
    /\ UNCHANGED <<fsVars, cmd, local_index, deps_left, resolved_deps, cur,
                   hub_info, dl_bytes, dep_path, net_requests, fetched, prev,
                   invocations, racers>>

\* What `quiet` makes of the end of the child: its captured output is printed
\* and run_sphere returns Ok whatever the child's status.
CaptureOutputAs(quiet) ==
    /\ pc = "running"
    /\ \E output \in ChildOutputs, status \in ChildStatuses :
          child' = [child EXCEPT !.printed = PrintedOutput(output, quiet),
                                 !.status = status]
    /\ ReturnFromRun(Ok)
    /\ UNCHANGED <<fsVars, cmd, local_index, deps_left, resolved_deps, cur,
                   hub_info, dl_bytes, dep_path, net_requests, fetched, executed,
                   prev, invocations, racers>>

CaptureOutput == CaptureOutputAs(cmd.quiet)

\* --------------------------------------------------------------------- Next

Next ==
    \/ CacheAdd
    \/ CacheRemove
    \/ CacheList
    \/ UserDeletesCacheFile
    \/ RunBegin
    \/ ResolveNext
    \/ FetchMasterIndex
    \/ FetchSphereFile
    \/ VerifyHash
    \/ StoreFetched
    \/ LoadDependency
    \/ CreateTempDir
    \/ CreateBinDir
    \/ WriteShim
    \/ Execute
    \/ CaptureOutput
    \/ ProcessEnd

Spec == Init /\ [][Next]_vars

\* ------------------------------------------- two invocations at the same time

\* Two processes of the tool run side by side. Each loads the index file
\* (handle_cache_add, line 163; run_sphere, line 446) and later, in a step of
\* its own, writes it back with its entry inserted (line 220; line 416):
\* nothing locks the file in between.
RaceCommands ==
    {Command("add", FALSE, id, RelDep, copy) : id \in DepIds, copy \in BOOLEAN}
    \cup {Command("run", FALSE, <<>>, PathRun1, FALSE)}
RaceIndexFiles ==
    {IndexFile(k, EmptyIndex) : k \in {"absent", "blank", "malformed"}}
    \cup {IndexFile("json", (IdB :> PathDep))}

\* The id whose entry the invocation inserts: the id given to cache add, or
\* the id of the dependency the run fetches.
RacerId(p) ==
    IF racers[p].cmd.kind = "add" THEN racers[p].cmd.id
    ELSE toml_from_str(UserFiles[racers[p].cmd.file]).process.dependencies.foo

\* The registry entry and file of the id a racing run fetches.
RaceHubInfo(id) == HubSphereInfo(CachedFileName(id), calculated_hash_hex(TDepOther))

InitRace ==
    /\ indexFile \in RaceIndexFiles
    /\ cacheDir = [name \in {} |-> TGarbage]
    /\ pc = "idle"
    /\ cmd = NoCommand
    /\ result = NoResult
    /\ local_index = EmptyIndex
    /\ deps_left = {}
    /\ resolved_deps = <<>>
    /\ cur = NoCur
    /\ hub_info = NoHubInfo
    /\ dl_bytes = TGarbage
    /\ dep_path = <<>>
    /\ sandbox = NoSandbox
    /\ net_requests = 0
    /\ fetched = {}
    /\ executed = 0
    /\ child = NoChild
    /\ exit = NoExit
    /\ prev = NoCommand
    /\ invocations = 0
    /\ racers = NoRacers

seqVars == <<pc, cmd, result, runVars, exit, prev, invocations>>

IndexInMemory_reread(p) == load_cache_index(indexFile).index

\* `index` (handle_cache_add) or `local_index` (run_sphere) of process p: what
\* its load returned.
IndexInMemory(p) == racers[p].index

\* Process p starts with some command line and loads the index file.
RaceLoad(p) ==
    /\ racers[p].pc = "start"
    /\ \E command \in RaceCommands :
        LET loaded == load_cache_index(indexFile)
        IN  racers' = [racers EXCEPT ![p] =
                IF loaded.ok
                THEN Racer("loaded", command, loaded.index, NoResult)
                ELSE Racer("ended", command, EmptyIndex, Err(loaded.err))]
    /\ UNCHANGED <<fsVars, seqVars>>

\* The rest of cache add in process p: the checks, the copy, the insert and
\* the save of the index it holds.
RaceAdd(p) ==
    /\ racers[p].pc = "loaded"
    /\ racers[p].cmd.kind = "add"
    /\ LET c == racers[p].cmd
           out == handle_cache_add_from([ok |-> TRUE, index |-> IndexInMemory(p),
                                         err |-> NoError],
                                        c.id, c.file, c.copy, "ok")
       IN  /\ indexFile' = out.indexFile
           /\ cacheDir' = out.cacheDir
           /\ racers' = [racers EXCEPT ![p].pc = IF out.result = Ok THEN "saved"
                                                 ELSE "ended",
                                       ![p].result = out.result]
    /\ UNCHANGED seqVars

\* The dependency loop of a run in process p: the dependency is taken from
\* the cache, or fetched from the hub, verified, written, inserted and the
\* index saved.
RaceFetch(p) ==
    /\ racers[p].pc = "loaded"
    /\ racers[p].cmd.kind = "run"
    /\ LET id == RacerId(p)
           info == RaceHubInfo(id)
       IN  IF UseLocal(IndexInMemory(p), id)
           THEN /\ racers' = [racers EXCEPT ![p].pc = "ended", ![p].result = Ok]
                /\ UNCHANGED fsVars
           ELSE /\ cacheDir' = (info.filename :> TDepOther) @@ cacheDir
                /\ indexFile' = save_cache_index(
                                    Insert(IndexInMemory(p), id, info.filename))
                /\ racers' = [racers EXCEPT ![p].pc = "saved", ![p].result = Ok]
    /\ UNCHANGED seqVars

NextRace ==
    \/ \E p \in Procs : RaceLoad(p)
    \/ \E p \in Procs : RaceAdd(p)
    \/ \E p \in Procs : RaceFetch(p)

SpecRace == InitRace /\ [][NextRace]_vars

\* ------------------------------------------------------------------- claims

RunActive == cmd.kind = "run" /\ pc \notin {"idle", "exited"}
InResolution ==
    pc \in {"resolve", "fetch_index", "fetch_file", "verify", "store", "load_dep"}
DigestEqual == calculated_hash_hex(dl_bytes) = hub_info.hash_sha256
Downloaded == dl_bytes \in HubFileContents

\* C1: in a hub fetch the index in memory, the index file and the cache
\* directory change only in the step that follows a digest found equal to
\* the registry's hash_sha256; a digest that differs ends the fetch with an
\* error and leaves all three as they were.
C1_VerifiedBeforeMutation ==
    [][/\ (RunActive /\ <<indexFile, cacheDir, local_index>>' # <<indexFile, cacheDir, local_index>>)
            => (pc = "store" /\ Downloaded /\ DigestEqual)
       /\ (pc = "verify" /\ ~DigestEqual)
            => (/\ pc' = "exited"
                /\ result'.kind = "Err"
                /\ UNCHANGED <<indexFile, cacheDir, local_index>>)
       /\ (pc' = "store") => (Downloaded' /\ DigestEqual')]_vars

\* A fetch ended on a digest that differs from the advertised hash.
C1_Witness ==
    /\ pc = "exited"
    /\ result.err.head = "Hash mismatch for Sphere"
    /\ Downloaded /\ ~DigestEqual
    /\ to_uppercase(calculated_hash_hex(dl_bytes)) = to_uppercase(hub_info.hash_sha256)

\* C2: for every advertised hash_sha256 and in quiet and non-quiet mode, a
\* fetch whose registry entry advertises a hash that the digest of the served
\* bytes does not equal ends with the integrity-mismatch error, which reports
\* the expected and the computed hash, through main's error exit.
C2_MismatchIsReported ==
    /\ (pc = "exited" /\ cmd.kind = "run" /\ hub_info # NoHubInfo
          /\ \A b \in HubFileContents : calculated_hash_hex(b) # hub_info.hash_sha256)
        => (/\ result.kind = "Err"
            /\ exit.code = ExitFailure
            /\ result.err.head \in {"Hash mismatch for Sphere",
                                     "Failed to fetch Sphere file",
                                     "error sending request"})
    /\ (pc = "exited" /\ cmd.kind = "run" /\ Downloaded /\ ~DigestEqual)
        => (/\ exit.code = ExitFailure
            /\ exit.stderr.text = "Hash mismatch for Sphere"
            /\ exit.stderr.args.expected = hub_info.hash_sha256
            /\ exit.stderr.args.got = calculated_hash_hex(dl_bytes))

\* C3: when a run has ended, on whatever path, its sandbox directory does
\* not exist.
C3_SandboxRemoved == pc \in {"idle", "exited"} => ~sandbox.exists

\* A run ended on a failure to write a shim, after the sandbox and bin/ had
\* been created.
C3_Witness ==
    /\ pc = "exited"
    /\ result.err.head = "writeln"
    /\ ~sandbox.exists

Resolved(alias) == \E i \in 1..Len(resolved_deps) : resolved_deps[i].alias = alias
Failed(alias) ==
    /\ pc = "exited" /\ cmd.kind = "run"
    /\ cur.alias = alias
    /\ ~Resolved(alias)
    /\ result.kind # "Ok"
AllResolved ==
    /\ cmd.kind = "run"
    /\ \A alias \in DOMAIN Manifest.dependencies : Resolved(alias)

\* C4: a dependency that fails ends the run there: the dependencies not yet
\* visited stay unvisited, no sandbox and no shim exists, the entrypoint has
\* not been started, nothing but the end of the process follows, and the
\* dependency does not become Resolved; a sandbox is built and the
\* entrypoint started only with every dependency Resolved.
C4_FailedDependencyAborts ==
    [][/\ (InResolution /\ pc' = "exited")
            => (/\ result'.kind \in {"Err", "panic"}
                /\ Failed(cur.alias)'
                /\ sandbox' = NoSandbox
                /\ executed' = 0
                /\ UNCHANGED <<deps_left, resolved_deps>>)
       /\ (\E alias \in Aliases : Failed(alias))
            => (pc' = "idle" /\ \A alias \in Aliases : ~Resolved(alias)')
       /\ (sandbox'.exists \/ executed' > 0) => AllResolved']_vars

\* The first dependency visited failed while another one was still to visit.
C4_Witness ==
    /\ \E alias \in Aliases : Failed(alias)
    /\ deps_left # {}
    /\ result.err.head = "Hash mismatch for Sphere"

\* C5: a dependency whose id is neither in the local index nor in the
\* registry's master index ends the run with an error that names the id and
\* the alias.
C5_NotFoundNamesIdAndAlias ==
    (/\ pc = "exited" /\ cmd.kind = "run"
     /\ result.err.head = "Sphere ID not found in the public SphereHub registry"
     /\ cur.sphere_id \notin DOMAIN local_index)
    => (/\ exit.code = ExitFailure
        /\ {"id", "alias"} \subseteq DOMAIN exit.stderr.args
        /\ exit.stderr.args.id = cur.sphere_id
        /\ exit.stderr.args.alias = <<cur.alias>>)

LacksEntrypoint(path) ==
    /\ path \in DOMAIN UserFiles
    /\ "entrypoint" \notin DOMAIN UserFiles[path].fields

\* C6: a run of a manifest without an entrypoint field ends with main's
\* dedicated message for the missing entrypoint field.
C6_MissingEntrypointMessage ==
    (pc = "exited" /\ cmd.kind = "run" /\ LacksEntrypoint(cmd.file))
    => (/\ exit.code = ExitFailure
        /\ exit.stderr.text = "The file is missing the required 'entrypoint' field.")

StoredIndex == load_cache_index(indexFile).index

\* C7: cache add of an id that is a key of the index fails, with or without
\* --copy-to-cache, and leaves the index file and the cache directory as they
\* were.
C7_AddExistingIdFails ==
    [][(pc = "idle" /\ cmd'.kind = "add" /\ cmd'.id \in DOMAIN indexFile.map)
        => (/\ result'.kind = "Err"
            /\ exit'.code = ExitFailure
            /\ indexFile' = indexFile
            /\ cacheDir' = cacheDir)]_vars

\* The second of two adds of one id, the first of which copied, has failed.
C7_Witness ==
    /\ pc = "exited" /\ cmd.kind = "add"
    /\ prev.kind = "add" /\ prev.id = cmd.id /\ prev.copy /\ ~cmd.copy
    /\ result.err.head = "Sphere ID already exists in the cache index"
    /\ cmd.id \in DOMAIN indexFile.map

\* C8: cache remove of an id that is no key of the index fails and leaves the
\* index file as it was; a remove that succeeds leaves the index without that
\* key and with every other entry as it was; a remove that fails leaves the
\* index file as it was; no remove deletes a file of the cache directory.
C8_RemoveOnlyDropsTheEntry ==
    [][(pc = "idle" /\ cmd'.kind = "remove")
        => (/\ cacheDir' = cacheDir
            /\ (cmd'.id \notin DOMAIN StoredIndex)
                 => (exit'.code = ExitFailure /\ indexFile' = indexFile)
            /\ (exit'.code # ExitSuccess) => (indexFile' = indexFile)
            /\ (cmd'.id \in DOMAIN indexFile.map)
                 => (exit'.code = ExitSuccess \/ result'.err = SaveError)
            /\ (exit'.code = ExitSuccess)
                 => (/\ cmd'.id \in DOMAIN StoredIndex
                     /\ indexFile'.kind = "json"
                     /\ DOMAIN indexFile'.map = (DOMAIN StoredIndex) \ {cmd'.id}
                     /\ \A k \in DOMAIN indexFile'.map :
                            indexFile'.map[k] = StoredIndex[k]))]_vars

\* An id was removed whose file is still in the cache directory, and the
\* index keeps another entry.
C8_Witness ==
    /\ pc = "exited" /\ cmd.kind = "remove" /\ exit.code = ExitSuccess
    /\ CachedFileName(cmd.id) \in DOMAIN cacheDir
    /\ cmd.id \notin DOMAIN indexFile.map
    /\ DOMAIN indexFile.map # {}

\* Every dependency of the running manifest has an index entry whose file
\* exists, and the run has sent no request.
AllLocal ==
    /\ cmd.kind = "run"
    /\ pc # "idle"
    /\ cmd.file \in DOMAIN UserFiles
    /\ toml_from_str(UserFiles[cmd.file]).ok
    /\ Manifest.has_deps
    /\ \A alias \in DOMAIN Manifest.dependencies :
          LET id == Manifest.dependencies[alias]
          IN  /\ id \in DOMAIN StoredIndex
              /\ IF StoredIndex[id][1] = "/"
                 THEN StoredIndex[id] \in DOMAIN UserFiles
                 ELSE StoredIndex[id] \in DOMAIN cacheDir
    /\ net_requests = 0

\* The shims as the manifest, the index file and the files the index points
\* to determine them.
ExpectedShims ==
    [alias \in DOMAIN Manifest.dependencies |->
        LET location == StoredIndex[Manifest.dependencies[alias]]
            text == IF location[1] = "/" THEN UserFiles[location] ELSE cacheDir[location]
        IN  <<"#!/bin/sh", text.fields.entrypoint>>]

\* C9: a run all of whose dependencies have an index entry with an existing
\* file sends no request and leaves the index file and the cache directory
\* as they are, from its start to its end, and the shims it writes are those
\* that the manifest, the index and the files of the entries determine, so
\* that a second run in that state writes the same.
C9_LocalResolutionIsPure ==
    [][/\ (pc = "idle" /\ AllLocal') => UNCHANGED <<indexFile, cacheDir>>
       /\ (AllLocal /\ pc # "exited")
            => (AllLocal' /\ UNCHANGED <<indexFile, cacheDir>>)
       /\ (AllLocal' /\ pc' = "exec") => (sandbox'.shims = ExpectedShims')]_vars

\* A run resolved both of its dependencies from the cache and wrote the shims.
C9_Witness ==
    /\ AllLocal /\ pc = "exec"
    /\ DOMAIN sandbox.shims = Aliases
    /\ sandbox.shims = ExpectedShims

\* C10: after a successful cache add <id> <file> --copy-to-cache, a run of a
\* manifest with a dependency alias -> <id> resolves it without a hub fetch,
\* and the shim of the alias invokes the entrypoint of <file>.
C10_AddThenRunRoundTrip ==
    (/\ pc = "exec" /\ cmd.kind = "run"
     /\ prev.kind = "add" /\ prev.copy
     /\ toml_from_str(UserFiles[canonicalize(prev.file)]).ok)
    => \A alias \in DOMAIN Manifest.dependencies :
          (Manifest.dependencies[alias] = prev.id)
          => (/\ prev.id \notin fetched
              /\ alias \in DOMAIN sandbox.shims
              /\ sandbox.shims[alias] =
                    <<"#!/bin/sh", UserFiles[canonicalize(prev.file)].fields.entrypoint>>)

\* Both processes saved an entry, for different ids, and neither had the
\* other's entry in the index it loaded.
BothSavedStale(p, q) ==
    /\ p # q
    /\ racers[p].pc = "saved" /\ racers[q].pc = "saved"
    /\ RacerId(p) # RacerId(q)
    /\ RacerId(p) \notin DOMAIN racers[q].index
    /\ RacerId(q) \notin DOMAIN racers[p].index

\* C11: the read-modify-write of the index file is not locked: when two
\* invocations have both saved an entry, for different ids, each from an
\* index loaded before the other saved, the index file lacks the entry of one
\* of them although both reported success; and an entry is only ever lost
\* this way, to a save from an index that did not have it.
C11_UnlockedReadModifyWrite ==
    \A p \in Procs, q \in Procs :
        /\ BothSavedStale(p, q)
             => (RacerId(p) \notin DOMAIN indexFile.map
                 \/ RacerId(q) \notin DOMAIN indexFile.map)
        /\ (/\ p # q
            /\ racers[p].pc = "saved" /\ racers[q].pc = "saved"
            /\ RacerId(p) \notin DOMAIN indexFile.map)
             => (/\ RacerId(p) \notin DOMAIN racers[q].index
                 /\ indexFile = save_cache_index(
                        Insert(racers[q].index, RacerId(q), indexFile.map[RacerId(q)])))

\* A cache add and a run that fetched have both reported success and the
\* index file lacks the entry of the add.
C11_Witness ==
    /\ racers[1].pc = "saved" /\ racers[1].result = Ok /\ racers[1].cmd.kind = "add"
    /\ racers[2].pc = "saved" /\ racers[2].result = Ok /\ racers[2].cmd.kind = "run"
    /\ RacerId(1) \notin DOMAIN indexFile.map
    /\ RacerId(2) \in DOMAIN indexFile.map

\* C12: every invocation ends with exit code 0 when its command completed
\* without error and with exit code 1, after a message on standard error,
\* when the command ended with an error; the tool ends with no other code.
C12_ExitCodeZeroOrOne ==
    pc = "exited"
    => (/\ exit.code \in {ExitSuccess, ExitFailure}
        /\ (exit.code = ExitSuccess) <=> (result.kind = "Ok")
        /\ (exit.code = ExitFailure) => (exit.stderr.text # ""))

\* C13: the entrypoint's process has the sandbox root as its working
\* directory and a PATH that is <sandbox>/bin followed by the tool's own PATH;
\* it is given the manifest's entrypoint; and for every resolved dependency
\* the search of that PATH for the alias ends in <sandbox>/bin, at a shim
\* that runs the dependency's entrypoint, also when a directory of the tool's
\* PATH holds an executable of the same name.
C13_ShimsShadowThePath ==
    pc = "running"
    => (/\ sandbox.exists /\ sandbox.bin
        /\ child.cwd = SandboxRoot
        /\ child.path = <<BinPath>> \o OriginalPath
        /\ child.script = Manifest.entrypoint
        /\ \A i \in 1..Len(resolved_deps) :
              LET dep == resolved_deps[i]
              IN  /\ Which(child.path, dep.alias) = BinPath
                  /\ sandbox.shims[dep.alias] = <<"#!/bin/sh", dep.process.entrypoint>>)

\* The entrypoint runs with a shim for an alias that is also the name of an
\* executable of the tool's own PATH.
C13_Witness ==
    /\ pc = "running"
    /\ \E i \in 1..Len(resolved_deps) :
          /\ resolved_deps[i].alias = "foo"
          /\ Which(OriginalPath, "foo") = "/usr/bin"
          /\ Which(child.path, "foo") = BinPath
    /\ child.program = "/usr/bin"

\* C14: the order in which the dependencies of a manifest are visited is
\* determined by the manifest: at the head of every iteration of the loop
\* there is one alias that the iteration can visit, so that two runs from
\* the same state visit the same dependencies in the same order.
C14_OrderIsDetermined ==
    pc = "resolve" => Cardinality(NextAliases) <= 1

\* C15: a manifest whose entrypoint is the empty string is rejected: a run
\* that has come to build its sandbox or to start the entrypoint has a
\* manifest, and dependencies, with entrypoints that are not empty.
C15_EntrypointNotEmpty ==
    (cmd.kind = "run" /\ pc \in {"sandbox", "bin", "shims", "exec", "running"})
    => (/\ Manifest.entrypoint # ""
        /\ \A i \in 1..Len(resolved_deps) : resolved_deps[i].process.entrypoint # "")

\* C16: --quiet changes the narration only. Every step that a run takes with
\* its value of quiet is a step of the run with the other value, to the same
\* result, index and cache directory (quiet is read in the fetch, where the
\* entry found is shown, and where the child's output is printed; no other
\* step of a run reads it); and with either value the child's standard output
\* and standard error are printed when they are not empty.
C16_QuietOnlySilences ==
    [][/\ FetchMasterIndexAs(cmd.quiet) => FetchMasterIndexAs(~cmd.quiet)
       /\ CaptureOutputAs(cmd.quiet)
            => (/\ pc' = "exited" /\ result' = Ok
                /\ \E output \in ChildOutputs :
                      /\ child'.printed = PrintedOutput(output, cmd.quiet)
                      /\ (trim(output.stdout) # "")
                           => (PrintedOutput(output, ~cmd.quiet).stdout
                                 = child'.printed.stdout)
                      /\ PrintedOutput(output, ~cmd.quiet).stderr
                           = child'.printed.stderr)]_vars

\* C17: the step that completes a hub fetch of an id whose registry entry has
\* the file name f writes the verified bytes to the cache file f, sets the
\* id's entry of the index in memory to f, leaves every other entry as it
\* was, saves the index, so that the index file holds the index in memory,
\* and returns the path of the cache file f, which exists.
C17_FetchStoresAndPersists ==
    [][(pc = "store" /\ pc' = "load_dep")
        => (/\ calculated_hash_hex(dl_bytes) = hub_info.hash_sha256
            /\ hub_info.filename \in DOMAIN cacheDir'
            /\ cacheDir'[hub_info.filename] = dl_bytes
            /\ DOMAIN local_index' = (DOMAIN local_index) \cup {cur.sphere_id}
            /\ local_index'[cur.sphere_id] = hub_info.filename
            /\ \A id \in (DOMAIN local_index) \ {cur.sphere_id} :
                  local_index'[id] = local_index[id]
            /\ indexFile'.kind = "json"
            /\ indexFile'.map = local_index'
            /\ dep_path' = hub_info.filename
            /\ ~is_absolute(local_index'[cur.sphere_id])
            /\ local_index'[cur.sphere_id] \in DOMAIN cacheDir')]_vars

\* A fetch has stored its file and entry while the index held an entry of
\* another id.
C17_Witness ==
    /\ pc = "load_dep"
    /\ cur.sphere_id \in fetched
    /\ dep_path = local_index[cur.sphere_id]
    /\ (DOMAIN local_index) \ {cur.sphere_id} # {}
    /\ indexFile.map = local_index

\* The file an index entry points to is there: a file of the cache directory
\* for a relative location, the path itself for an absolute one.
EntryFilePresent(index, id) ==
    IF index[id][1] = "/"
    THEN index[id] \in (DOMAIN UserFiles) \cup UserDirs
    ELSE index[id] \in DOMAIN cacheDir

\* C18: an iteration of the dependency loop goes to the hub if and only if
\* the id has no entry in the loaded index or its entry points to a file
\* that does not exist, and no fetch starts elsewhere; otherwise the
\* dependency is read from the entry's location. A fetch that succeeds for
\* an id with a stale entry replaces the entry with the registry's file
\* name, and the dependency is read from that cache file.
C18_FetchIffAbsentOrMissing ==
    [][/\ (pc = "resolve")
            => (/\ pc' \in {"fetch_index", "load_dep"}
                /\ (pc' = "fetch_index")
                     <=> (\/ cur'.sphere_id \notin DOMAIN local_index
                          \/ ~EntryFilePresent(local_index, cur'.sphere_id))
                /\ (pc' = "load_dep") => (dep_path' = local_index[cur'.sphere_id]))
       /\ (pc' = "fetch_index") => (pc = "resolve")
       /\ (pc = "store" /\ pc' = "load_dep")
            => (/\ local_index'[cur.sphere_id] = hub_info.filename
                /\ dep_path' = hub_info.filename)
       /\ (pc = "load_dep" /\ Len(resolved_deps') > Len(resolved_deps))
            => (resolved_deps'[Len(resolved_deps')].process
                  = toml_from_str(IF dep_path[1] = "/" THEN UserFiles[dep_path]
                                  ELSE cacheDir[dep_path]).process)]_vars

\* A fetch is about to replace the entry of an id whose cached file is gone.
C18_Witness ==
    /\ pc = "store"
    /\ cur.sphere_id \in DOMAIN local_index
    /\ ~EntryFilePresent(local_index, cur.sphere_id)
    /\ local_index[cur.sphere_id] # hub_info.filename

\* The stage of a run that a position belongs to: 1 the parse of the
\* manifest, 2 the dependency loop, 3 the construction of the sandbox, 4 the
\* subprocess, 5 the capture of its output and the return.
Stage(at) ==
    CASE at = "idle" -> 1
      [] at \in {"resolve", "fetch_index", "fetch_file", "verify", "store", "load_dep"} -> 2
      [] at \in {"sandbox", "bin", "shims", "exec"} -> 3
      [] at = "running" -> 4
      [] OTHER -> 5

ShimAliases == {resolved_deps[i].alias : i \in 1..Len(resolved_deps)}

\* C19: a run never goes back to an earlier stage; the sandbox directory
\* exists only with every dependency resolved and none left to visit; the
\* entrypoint is started once at most, and only with a shim written for
\* every resolved dependency; the child's output is printed only after it
\* was started; and from the creation of the sandbox on, no request is sent
\* and the index is not written.
C19_StagesInOrder ==
    [][/\ (cmd'.kind = "run" /\ pc # "exited") => (Stage(pc') >= Stage(pc))
       /\ sandbox'.exists => (AllResolved' /\ deps_left' = {})
       /\ (executed' # executed /\ pc # "exited")
            => (/\ executed = 0 /\ executed' = 1
                /\ pc = "exec"
                /\ sandbox.exists
                /\ DOMAIN sandbox.shims = ShimAliases
                /\ ShimAliases = DOMAIN Manifest.dependencies)
       /\ (child'.printed # child.printed /\ pc # "exited")
            => (pc = "running" /\ executed = 1)
       /\ sandbox.exists => UNCHANGED <<net_requests, indexFile, local_index, cacheDir>>]_vars

\* The entrypoint runs after a dependency was fetched and another taken from
\* the cache.
C19_Witness ==
    /\ pc = "running"
    /\ executed = 1
    /\ Len(resolved_deps) = 2
    /\ Cardinality(fetched) = 1
    /\ net_requests = 2
    /\ DOMAIN sandbox.shims = Aliases

\* The command that starts loads the cache index: a cache command, or a run
\* of a manifest that parses and has a dependencies table.
LoadsIndex(command) ==
    \/ command.kind \in {"add", "remove", "list"}
    \/ /\ command.kind = "run"
       /\ command.file \in DOMAIN UserFiles
       /\ toml_from_str(UserFiles[command.file]).ok
       /\ toml_from_str(UserFiles[command.file]).process.has_deps

IndexParseError(res) ==
    /\ res.kind = "Err"
    /\ res.err.head = "Failed to parse cache index"
    /\ "path" \in DOMAIN res.err.args
    /\ res.err.args.path = <<"index.json">>

NewCacheFiles == (DOMAIN cacheDir') \ (DOMAIN cacheDir)

\* C21: cache add with --copy-to-cache fails when the cache directory holds a
\* file of the name derived from the id, and then the cache directory and
\* the index file are as they were. When it succeeds, the cache directory
\* has one file more, with the content of the source, every other file is as
\* it was, and the index has one entry more, the id with the new file's name,
\* which is relative and ends in .sphere. When cache add without
\* --copy-to-cache succeeds, the cache directory is as it was and the index
\* has one entry more, the id with the absolute path of the source.
C21_AddCopiesOrReferences ==
    [][(pc = "idle" /\ cmd'.kind = "add")
        => (/\ (cmd'.copy /\ CachedFileName(cmd'.id) \in DOMAIN cacheDir)
                 => (/\ result'.kind = "Err"
                     /\ UNCHANGED <<indexFile, cacheDir>>)
            /\ (result' = Ok)
                 => (/\ indexFile'.kind = "json"
                     /\ cmd'.id \notin DOMAIN StoredIndex
                     /\ DOMAIN indexFile'.map = (DOMAIN StoredIndex) \cup {cmd'.id}
                     /\ \A id \in DOMAIN StoredIndex : indexFile'.map[id] = StoredIndex[id]
                     /\ \A name \in DOMAIN cacheDir :
                           name \in DOMAIN cacheDir' /\ cacheDir'[name] = cacheDir[name])
            /\ (result' = Ok /\ cmd'.copy)
                 => (\E name \in NewCacheFiles :
                        /\ NewCacheFiles = {name}
                        /\ cacheDir'[name] = UserFiles[canonicalize(cmd'.file)]
                        /\ indexFile'.map[cmd'.id] = name
                        /\ name[1] # "/"
                        /\ ends_with(name, DotSphere)
                        /\ Len(name) > Len(DotSphere))
            /\ (result' = Ok /\ ~cmd'.copy)
                 => (/\ cacheDir' = cacheDir
                     /\ indexFile'.map[cmd'.id] = canonicalize(cmd'.file)
                     /\ indexFile'.map[cmd'.id][1] = "/"
                     /\ indexFile'.map[cmd'.id] \in DOMAIN UserFiles))]_vars

\* A cache add with --copy-to-cache has failed on a file of the derived name
\* that the cache directory holds while the index has no entry of the id.
C21_Witness ==
    /\ pc = "exited" /\ cmd.kind = "add" /\ cmd.copy
    /\ result.err.head = "A file named already exists in the cache directory"
    /\ result.err.args.filename \in DOMAIN cacheDir
    /\ cmd.id \notin DOMAIN indexFile.map

\* C22: the step of a hub fetch that writes the downloaded file leaves every
\* cache file that the index entry of another id points to with the content
\* it had.
C22_FetchKeepsOtherFiles ==
    [][(pc = "store")
        => \A id \in (DOMAIN local_index) \ {cur.sphere_id} :
              (local_index[id] \in DOMAIN cacheDir)
              => (/\ local_index[id] \in DOMAIN cacheDir'
                  /\ cacheDir'[local_index[id]] = cacheDir[local_index[id]])]_vars

\* C23: after a cache add of an id with --copy-to-cache and a cache remove of
\* that id, both successful (the remove was the last invocation and the copy
\* of the source is in the cache directory under the name derived from the
\* id), a cache add of the id and the same source with --copy-to-cache
\* succeeds, unless the copy or the save fails, and the index has the id.
C23_RemovedIdIsAddableAgain ==
    [][(/\ pc = "idle"
        /\ prev.kind = "remove"
        /\ cmd'.kind = "add" /\ cmd'.copy /\ cmd'.id = prev.id
        /\ path_is_file(cmd'.file)
        /\ CachedFileName(prev.id) \in DOMAIN cacheDir
        /\ cacheDir[CachedFileName(prev.id)] = UserFiles[canonicalize(cmd'.file)])
        => (\/ /\ result' = Ok
               /\ exit'.code = ExitSuccess
               /\ cmd'.id \in DOMAIN indexFile'.map
            \/ /\ result'.kind = "Err"
               /\ result'.err.head \in {"Failed to copy", "Failed to save cache index"})]_vars

\* C24: a run fetches an id once at most: a fetch starts only for an id that
\* this run has not fetched, and a dependency whose id this run has fetched
\* is taken from the index in memory without a request, whichever alias
\* names it. Requests are sent in the two steps of a fetch only, one in each,
\* so that a run has sent two requests at most for every id it fetched or is
\* fetching; a request that fails ends the run and is not sent again.
C24_FetchedOnceAtMost ==
    [][/\ (pc' = "fetch_index") => (cur'.sphere_id \notin fetched)
       /\ (pc = "resolve" /\ cur'.sphere_id \in fetched)
            => (/\ pc' = "load_dep"
                /\ dep_path' = local_index[cur'.sphere_id]
                /\ UNCHANGED <<net_requests, fetched, indexFile, cacheDir>>)
       /\ (net_requests' # net_requests /\ pc # "exited")
            => (/\ pc \in {"fetch_index", "fetch_file"}
                /\ net_requests' = net_requests + 1
                /\ net_requests' <= 2 * (Cardinality(fetched) + 1)
                /\ (result' # NoResult) => (pc' = "exited"))
       /\ (fetched' # fetched /\ pc # "exited")
            => (/\ pc = "store"
                /\ cur.sphere_id \notin fetched
                /\ fetched' = fetched \cup {cur.sphere_id})]_vars

\* Both aliases of a manifest that name one id are resolved after one fetch
\* of two requests.
C24_Witness ==
    /\ pc = "exec"
    /\ cmd.file = PathRun4
    /\ Len(resolved_deps) = 2
    /\ resolved_deps[1].process = resolved_deps[2].process
    /\ fetched = {IdA}
    /\ net_requests = 2

\* C25: a run whose entrypoint was started ends with exit code 0 only if the
\* child ended with a success status; when the child ended with another
\* status the run returns an error and the tool exits with code 1.
C25_ChildFailureFailsTheRun ==
    (pc = "exited" /\ cmd.kind = "run" /\ executed = 1)
    => (/\ (exit.code = ExitSuccess) => (child.status = "success")
        /\ (child.status = "failure")
             => (result.kind = "Err" /\ exit.code = ExitFailure))

====
